---- MODULE Spec2Model ----
(***************************************************************************)
(* Model of script.js, the APPA membership fee calculator: the load of the *)
(* fee tables from "APPA Membership Costs.csv" (the fetch callback and     *)
(* parseSection), the five lookup functions, and the two event handlers    *)
(* handleInstitutionTypeChange and calculateFee acting on the form.        *)
(*                                                                         *)
(* A JavaScript string is a sequence of one-character strings.  A          *)
(* JavaScript number is a record [nan, v]: v counts hundredths, so that    *)
(* 1.25 is Num(125).  The cells of the modelled files are small decimals   *)
(* whose fractions are binary-exact (.5, .25, .75), for which the double   *)
(* arithmetic of the program and the exact arithmetic below agree.         *)
(***************************************************************************)
EXTENDS Integers, Sequences, FiniteSets, TLC

\* ------------------------------------------------------------------------
\* Bounds of the modelled source files and of the probed inputs
\* ------------------------------------------------------------------------

\* data rows (GIE brackets) of the four-year section
NumGie == 2
\* columns (FTE brackets) of the four-year section
NumFte == 2
\* rows of each flat section (two-year, non-higher-ed, business partner, regions)
NumFlat == 2
\* base fees handed to getRegionalFee directly: 0, 0.5, ..., MaxBase * 0.5
MaxBase == 5

\* ------------------------------------------------------------------------
\* JavaScript numbers
\* ------------------------------------------------------------------------

NaN == [nan |-> TRUE, v |-> 0]
Num(h) == [nan |-> FALSE, v |-> h]
Zero == Num(0)

\* a + b
Add(a, b) == IF a.nan \/ b.nan THEN NaN ELSE Num(a.v + b.v)

\* Math.ceil(a * b) for non-negative a, b; a.v * b.v counts ten-thousandths
CeilMul(a, b) ==
    IF a.nan \/ b.nan THEN NaN
    ELSE Num(((a.v * b.v + 9999) \div 10000) * 100)

\* Variant of x || 0 that treats only 0 as falsy
OrZeroKeepingNaN(x) == IF ~x.nan /\ x.v = 0 THEN Zero ELSE x

\* x || 0 on a number: 0 and NaN are falsy
OrZero(x) == IF x.nan \/ x.v = 0 THEN Zero ELSE x

\* ------------------------------------------------------------------------
\* JavaScript strings
\* ------------------------------------------------------------------------

DigitChars == <<"0", "1", "2", "3", "4", "5", "6", "7", "8", "9">>
IsDigit(c) == \E d \in 1..10 : DigitChars[d] = c
DigitVal(c) == (CHOOSE d \in 1..10 : DigitChars[d] = c) - 1

RECURSIVE IntStr(_)
IntStr(n) == IF n < 10 THEN <<DigitChars[n + 1]>>
             ELSE IntStr(n \div 10) \o <<DigitChars[(n % 10) + 1]>>

RECURSIVE DigitsVal(_)
DigitsVal(s) == IF s = <<>> THEN 0
                ELSE 10 * DigitsVal(SubSeq(s, 1, Len(s) - 1)) + DigitVal(s[Len(s)])

IsSpace(c) == c \in {" ", "\r", "\t"}

\* String.prototype.trim
RECURSIVE Trim(_)
Trim(s) == IF s = <<>> THEN s
           ELSE IF IsSpace(s[1]) THEN Trim(Tail(s))
           ELSE IF IsSpace(s[Len(s)]) THEN Trim(SubSeq(s, 1, Len(s) - 1))
           ELSE s

NotQuote(c) == c # "\""
\* cell.replace(/"/g, '')
RemoveQuotes(s) == SelectSeq(s, NotQuote)

\* s.split(sep) for a one-character separator
RECURSIVE Split(_, _)
Split(s, sep) ==
    LET hits == {i \in 1..Len(s) : s[i] = sep}
    IN IF hits = {} THEN <<s>>
       ELSE LET i == CHOOSE k \in hits : \A m \in hits : k <= m
            IN <<SubSeq(s, 1, i - 1)>> \o Split(SubSeq(s, i + 1, Len(s)), sep)

\* Number(s) for a string of digits with at most one "." and at most two
\* fraction digits (every numeric cell of the modelled files); the empty
\* string is 0 and any other text is NaN
NumberOf(s) ==
    LET t == Trim(s)
        dots == {i \in 1..Len(t) : t[i] = "."}
        d == IF dots = {} THEN Len(t) + 1 ELSE CHOOSE i \in dots : TRUE
        ip == SubSeq(t, 1, d - 1)
        fp == SubSeq(t, d + 1, Len(t))
        wellFormed == /\ Cardinality(dots) <= 1
                      /\ \A i \in 1..Len(t) : i \in dots \/ IsDigit(t[i])
                      /\ Len(ip) + Len(fp) >= 1
    IN IF t = <<>> THEN Zero
       ELSE IF ~wellFormed THEN NaN
       ELSE CASE Len(fp) = 0 -> Num(100 * DigitsVal(ip))
              [] Len(fp) = 1 -> Num(100 * DigitsVal(ip) + 10 * DigitsVal(fp))
              [] Len(fp) = 2 -> Num(100 * DigitsVal(ip) + DigitsVal(fp))

\* Number(row[i]) with the 0-based index i of the program; a missing cell is
\* undefined and Number(undefined) is NaN
NumberAt(row, i) == IF i + 1 <= Len(row) THEN NumberOf(row[i + 1]) ELSE NaN

\* x.toFixed(2)
ToFixed2(x) ==
    IF x.nan THEN <<"N", "a", "N">>
    ELSE IntStr(x.v \div 100) \o <<".">>
         \o <<DigitChars[((x.v % 100) \div 10) + 1], DigitChars[(x.v % 10) + 1]>>

\* ------------------------------------------------------------------------
\* The source file "APPA Membership Costs.csv"
\* ------------------------------------------------------------------------

FourYearHeader == <<"F", "o", "u", "r", "-", "Y", "e", "a", "r", " ", "I", "n", "s", "t", "i", "t", "u", "t", "i", "o", "n", " ", "F", "e", "e", "s">>
TwoYearHeader == <<"T", "w", "o", "-", "Y", "e", "a", "r", " ", "I", "n", "s", "t", "i", "t", "u", "t", "i", "o", "n", " ", "F", "e", "e", "s">>
NonHigherEdHeader == <<"N", "o", "n", "-", "H", "i", "g", "h", "e", "r", " ", "E", "d", "u", "c", "a", "t", "i", "o", "n", " ", "F", "e", "e", "s">>
BusinessPartnerHeader == <<"B", "u", "s", "i", "n", "e", "s", "s", " ", "P", "a", "r", "t", "n", "e", "r", " ", "F", "e", "e", "s">>
RegionalHeader == <<"R", "e", "g", "i", "o", "n", "a", "l", " ", "F", "e", "e", " ", "M", "u", "l", "t", "i", "p", "l", "i", "e", "r", "s">>

\* The file as its author tabulated it: a sequence of records, each a
\* sequence of fields; a field may hold commas; <<>> is a blank line.
\* Labels and cells of the modelled files:
FteLabel(j, style) == IF style = "comma" THEN IntStr(j) \o <<",", "0", "0", "0">>
                      ELSE IntStr(j) \o <<"k">>
GieLabel(i) == <<"$">> \o IntStr(i) \o <<"M">>
TwoYearLabel(i) == <<"T">> \o IntStr(i)
NonHigherEdLabel(i) == <<"n">> \o IntStr(i)
LevelLabel(i) == <<"b">> \o IntStr(i)
RegionLabel(i) == <<"R">> \o IntStr(i)
Malformed == <<"n", "/", "a">>
MultiplierCells == << <<"0", ".", "5">>, <<"1", ".", "2", "5">>, <<"0">>, <<"2">> >>

FourYearRecords(style, bad) ==
    << <<FourYearHeader>> >>
    \o << <<<<"G", "I", "E">>>> \o [j \in 1..NumFte |-> FteLabel(j, style)] >>
    \o [i \in 1..NumGie |->
          <<GieLabel(i)>> \o [j \in 1..NumFte |->
              IF bad /\ i = NumGie /\ j = NumFte THEN Malformed
              ELSE IntStr(100 * i + 25 * j)]]
    \o << <<>> >>

\* A flat section: its header, NumFlat records <<label, cell>>, a blank line
FlatRecords(header, labels, cells, bad) ==
    << <<header>> >>
    \o [i \in 1..NumFlat |->
          <<labels[i], IF bad /\ i = NumFlat THEN Malformed ELSE cells[i]>>]
    \o << <<>> >>

TwoYearCell(i) == IntStr(300 + 10 * i)
NonHigherEdCell(i) == IntStr(50 * i) \o <<".", "5">>
LevelCell(i) == IntStr(900 * i)
MultiplierCell(i) == MultiplierCells[((i - 1) % 4) + 1]

TwoYearRecords(bad) ==
    FlatRecords(TwoYearHeader, [i \in 1..NumFlat |-> TwoYearLabel(i)],
                [i \in 1..NumFlat |-> TwoYearCell(i)], bad)
NonHigherEdRecords(bad) ==
    FlatRecords(NonHigherEdHeader, [i \in 1..NumFlat |-> NonHigherEdLabel(i)],
                [i \in 1..NumFlat |-> NonHigherEdCell(i)], bad)
BusinessPartnerRecords(bad) ==
    FlatRecords(BusinessPartnerHeader, [i \in 1..NumFlat |-> LevelLabel(i)],
                [i \in 1..NumFlat |-> LevelCell(i)], bad)
RegionalRecords(bad) ==
    FlatRecords(RegionalHeader, [i \in 1..NumFlat |-> RegionLabel(i)],
                [i \in 1..NumFlat |-> MultiplierCell(i)], bad)

Sections == {"four", "two", "nhe", "bp", "reg"}

\* The files of the model: the complete file with FTE labels with or without
\* thousands separators; the complete file with one malformed cell; the file
\* with one section dropped, and for the four-year section also with a title
\* line of two fields ahead of the first section.  drop = "cut" is a file
\* that ends on the four-year header line.
Params ==
    {p \in [style : {"plain", "comma"}, drop : Sections \cup {"none", "cut"},
            bad : Sections \cup {"none"}, title : BOOLEAN] :
        /\ p.drop = "none" \/ p.bad = "none"
        /\ p.style = "comma" => (p.drop = "none" /\ p.bad = "none")
        /\ p.title => p.drop = "four"}

SourceOf(p) ==
    (IF p.title THEN << <<<<"A", "P", "P", "A">>, <<"2", "0", "2", "4">>>>, <<>> >> ELSE <<>>)
    \o (IF p.drop \in {"four", "cut"} THEN <<>> ELSE FourYearRecords(p.style, p.bad = "four"))
    \o (IF p.drop = "two" THEN <<>> ELSE TwoYearRecords(p.bad = "two"))
    \o (IF p.drop = "nhe" THEN <<>> ELSE NonHigherEdRecords(p.bad = "nhe"))
    \o (IF p.drop = "bp" THEN <<>> ELSE BusinessPartnerRecords(p.bad = "bp"))
    \o (IF p.drop = "reg" THEN <<>> ELSE RegionalRecords(p.bad = "reg"))
    \o (IF p.drop = "cut" THEN << <<FourYearHeader>> >> ELSE <<>>)

\* CSV text of a field: quoted when it holds a comma
CsvField(f) == IF \E i \in 1..Len(f) : f[i] = "," THEN <<"\"">> \o f \o <<"\"">> ELSE f

RECURSIVE Join(_, _)
Join(parts, sep) == IF parts = <<>> THEN <<>>
                    ELSE IF Len(parts) = 1 THEN parts[1]
                    ELSE parts[1] \o <<sep>> \o Join(Tail(parts), sep)

CsvLine(record) == Join([k \in 1..Len(record) |-> CsvField(record[k])], ",")

\* The text fetch delivers: the lines joined by "\n"; every record of SourceOf(p)
\* is followed by a line break except the last line of a "cut" file
TextOf(p) ==
    LET src == SourceOf(p)
        body == Join([k \in 1..Len(src) |-> CsvLine(src[k])], "\n")
    IN IF p.drop = "cut" THEN body ELSE body \o <<"\n">>

\* ------------------------------------------------------------------------
\* The fetch callback's parse
\* ------------------------------------------------------------------------

\* data.split('\n').map(row => row.split(',').map(cell => cell.replace(/"/g, '').trim()))
ParseRows(data) ==
    LET lines == Split(data, "\n")
    IN [i \in 1..Len(lines) |->
          LET cells == Split(lines[i], ",")
          IN [k \in 1..Len(cells) |-> Trim(RemoveQuotes(cells[k]))]]

\* rows.findIndex(row => row[0] === header), 1-based; 0 when there is none
\* (the program's -1), so that "findIndex + 1" denotes the same row
FindIndex(rows, header) ==
    LET hits == {i \in 1..Len(rows) : rows[i][1] = header}
    IN IF hits = {} THEN 0 ELSE CHOOSE i \in hits : \A m \in hits : i <= m

IsBlankRow(row) == Len(row) = 0 \/ \A k \in 1..Len(row) : row[k] = <<>>

parseSection(rows, header) ==
    LET startIndex == FindIndex(rows, header)
        blanks == {i \in (startIndex + 1)..Len(rows) : IsBlankRow(rows[i])}
        stop == IF blanks = {} THEN Len(rows) + 1
                ELSE CHOOSE i \in blanks : \A m \in blanks : i <= m
    IN IF startIndex = 0 THEN <<>>
       ELSE SubSeq(rows, startIndex + 1, stop - 1)

\* row.slice(1)
Slice1(row) == IF row = <<>> THEN <<>> ELSE Tail(row)

\* The object or Map that results from assigning vals[i] to key keys[i] for
\* i = 1..Len(keys) in turn on top of base: a later assignment to a key wins
AssignAll(base, keys, vals) ==
    LET n == Len(keys)
        keySet == {keys[i] : i \in 1..n}
    IN [k \in (DOMAIN base) \cup keySet |->
          IF k \in keySet
          THEN vals[CHOOSE i \in 1..n : keys[i] = k /\ \A m \in 1..n : keys[m] = k => m <= i]
          ELSE base[k]]

\* ------------------------------------------------------------------------
\* State
\* ------------------------------------------------------------------------

VARIABLES
    csv,                  \* the file the server holds (a member of Params)
    loadState,            \* the fetch chain: "pending"; "loaded"; "fetchFailed" (the
                          \* fetch rejected); "threw" (the callback threw)
    domReady,             \* DOMContentLoaded has fired
    feeMatrix,            \* object: GIE label -> row of numbers
    gieOptions,           \* array of GIE labels
    nonHigherEdFees,      \* Map: institution type -> fee
    businessPartnerFees,  \* Map: level -> fee
    regionMultipliers,    \* object: region code -> multiplier
    fteOptions,           \* array of FTE labels
    fteIndexMap,          \* object: FTE label -> 0-based column index
    twoYearGieOptions,    \* array of {value, fee}
    businessPartnerLevels, \* array of {value, label}
    regions,              \* array of {value, label}
    institutionType,      \* value of the institutionType select
    dropdown,             \* the five dependent selects: options, value, disabled
    result,               \* amounts shown in nationalFee, regionalFee, totalFee
    lastEvent,            \* the event handled last
    alert,                \* the message alert() showed in that event, or NoAlert
    call                  \* the last direct call of a lookup function

tables == <<feeMatrix, gieOptions, nonHigherEdFees, businessPartnerFees,
            regionMultipliers, fteOptions, fteIndexMap, twoYearGieOptions,
            businessPartnerLevels, regions>>
form == <<institutionType, dropdown, result, lastEvent, alert>>
vars == <<csv, loadState, domReady, tables, form, call>>

\* ------------------------------------------------------------------------
\* Lookup functions
\* ------------------------------------------------------------------------

\* Names every plain object inherits from Object.prototype: obj[name] is a
\* function (truthy, NaN as a number) unless the object has its own property
ObjectProtoKeys ==
    { <<"c", "o", "n", "s", "t", "r", "u", "c", "t", "o", "r">>,
      <<"t", "o", "S", "t", "r", "i", "n", "g">> }

\* nonHigherEdFees.get(institutionType) || 0
getNonHigherEdFee(type) ==
    IF type \in DOMAIN nonHigherEdFees THEN OrZero(nonHigherEdFees[type]) ELSE Zero

\* businessPartnerFees.get(level) || 0
getBusinessPartnerFee(level) ==
    IF level \in DOMAIN businessPartnerFees THEN OrZero(businessPartnerFees[level]) ELSE Zero

\* Variant of getRegionalFee without Math.ceil
getRegionalFeeUnrounded(region, baseFee) ==
    IF region \in DOMAIN regionMultipliers
    THEN LET m == OrZero(regionMultipliers[region])
         IN IF baseFee.nan THEN NaN ELSE Num((baseFee.v * m.v) \div 100)
    ELSE IF region \in ObjectProtoKeys THEN NaN
    ELSE CeilMul(baseFee, Zero)

\* Math.ceil(baseFee * (regionMultipliers[region] || 0))
getRegionalFee(region, baseFee) ==
    IF region \in DOMAIN regionMultipliers
    THEN CeilMul(baseFee, OrZero(regionMultipliers[region]))
    ELSE IF region \in ObjectProtoKeys
    THEN NaN                               \* baseFee * (a function) is NaN
    ELSE CeilMul(baseFee, Zero)

getFourYearFee(fie, gie) ==
    IF gie \notin DOMAIN feeMatrix
    THEN Zero     \* undefined: return 0; an inherited member has no [fieIndex]: || 0
    ELSE LET row == feeMatrix[gie]
         IN IF fie \in DOMAIN fteIndexMap
            THEN LET fieIndex == fteIndexMap[fie]
                 IN IF fieIndex + 1 <= Len(row) THEN OrZero(row[fieIndex + 1]) ELSE Zero
            ELSE IF fie \in ObjectProtoKeys
            THEN Zero                      \* row[a function] is undefined: || 0
            ELSE IF 1 <= Len(row) THEN OrZero(row[1]) ELSE Zero

\* twoYearGieOptions.find(option => option.value === gie): the first match
getTwoYearFee(gie) ==
    LET hits == {i \in 1..Len(twoYearGieOptions) : twoYearGieOptions[i].value = gie}
    IN IF hits = {} THEN Zero
       ELSE twoYearGieOptions[CHOOSE i \in hits : \A m \in hits : i <= m].fee

\* ------------------------------------------------------------------------
\* The form
\* ------------------------------------------------------------------------

FourYear == <<"f", "o", "u", "r", "-", "y", "e", "a", "r">>
TwoYear == <<"t", "w", "o", "-", "y", "e", "a", "r">>
BusinessPartner == <<"b", "u", "s", "i", "n", "e", "s", "s", "-", "p", "a", "r", "t", "n", "e", "r">>
Other == <<"o", "t", "h", "e", "r">>

\* The values the institutionType select offers: the three the handlers
\* name, the non-higher-ed categories of the file, and one the file lacks
InstitutionTypes ==
    {FourYear, TwoYear, BusinessPartner, Other} \cup {NonHigherEdLabel(i) : i \in 1..NumFlat}

DropdownIds == {"fie", "gie", "gieTwoYear", "businessLevel", "region"}

NoAlert == "none"
ObjectObject == <<"[", "o", "b", "j", "e", "c", "t", " ", "O", "b", "j", "e", "c", "t", "]">>

\* value="${option.value || option}" for an option given as a string
StringOptionValue(o) == o
\* the same for an option given as {value, label}: an empty value is falsy
\* and the object itself is interpolated
ObjectOptionValue(o) == IF o.value = <<>> THEN ObjectObject ELSE o.value

\* clearDropdown: no options; the value of a select without options is ''
Cleared(disabled) == [options |-> <<>>, value |-> <<>>, disabled |-> disabled]

\* populateDropdown: the options replace the content and the first is selected
Populated(values, disabled) ==
    [options |-> values,
     value |-> IF values = <<>> THEN <<>> ELSE values[1],
     disabled |-> disabled]

\* The five selects after handleInstitutionTypeChange ran for `type` with
\* the given option arrays
DropdownsAfterChange(type, fte, gie, twoYear, levels, regs) ==
    LET regionValues == [i \in 1..Len(regs) |-> ObjectOptionValue(regs[i])]
    IN [id \in DropdownIds |->
        CASE id = "fie" ->
               IF type = FourYear
               THEN Populated([i \in 1..Len(fte) |-> StringOptionValue(fte[i])], FALSE)
               ELSE Cleared(TRUE)
          [] id = "gie" ->
               IF type = FourYear
               THEN Populated([i \in 1..Len(gie) |-> StringOptionValue(gie[i])], FALSE)
               ELSE Cleared(TRUE)
          [] id = "gieTwoYear" ->
               IF type = TwoYear
               THEN Populated([i \in 1..Len(twoYear) |-> StringOptionValue(twoYear[i].value)], FALSE)
               ELSE Cleared(TRUE)
          [] id = "businessLevel" ->
               IF type = BusinessPartner
               THEN Populated([i \in 1..Len(levels) |-> ObjectOptionValue(levels[i])], FALSE)
               ELSE Cleared(TRUE)
          [] id = "region" ->
               IF type = BusinessPartner THEN Cleared(TRUE)
               ELSE Populated(regionValues, FALSE)]

\* ------------------------------------------------------------------------
\* The tables the fetch callback builds from the parsed rows
\* ------------------------------------------------------------------------

LowerCase == <<"a", "b", "c", "d", "e", "f", "g", "h", "i", "j", "k", "l", "m", "n", "o", "p", "q", "r", "s", "t", "u", "v", "w", "x", "y", "z">>
UpperCase == <<"A", "B", "C", "D", "E", "F", "G", "H", "I", "J", "K", "L", "M", "N", "O", "P", "Q", "R", "S", "T", "U", "V", "W", "X", "Y", "Z">>
ToUpper(c) == IF \E i \in 1..26 : LowerCase[i] = c
              THEN UpperCase[CHOOSE i \in 1..26 : LowerCase[i] = c]
              ELSE c
\* row[0].charAt(0).toUpperCase() + row[0].slice(1)
Capitalize(s) == IF s = <<>> THEN s ELSE <<ToUpper(s[1])>> \o Tail(s)

\* gieOptions = fourYearRows.map(row => row[0])
LoadedGieOptions(rows) ==
    LET fourYearRows == parseSection(rows, FourYearHeader)
    IN [i \in 1..Len(fourYearRows) |-> fourYearRows[i][1]]

\* fourYearRows.forEach(row => feeMatrix[row[0]] = row.slice(1).map(Number))
LoadedFeeMatrix(rows, old) ==
    LET fourYearRows == parseSection(rows, FourYearHeader)
        MapNumber(cells) == [k \in 1..Len(cells) |-> NumberOf(cells[k])]
    IN AssignAll(old,
                 [i \in 1..Len(fourYearRows) |-> fourYearRows[i][1]],
                 [i \in 1..Len(fourYearRows) |-> MapNumber(Slice1(fourYearRows[i]))])

\* rows[findIndex + 1] exists: otherwise its .slice throws a TypeError
FteRowExists(rows) == FindIndex(rows, FourYearHeader) + 1 <= Len(rows)

\* fteOptions = rows[rows.findIndex(...) + 1].slice(1)
LoadedFteOptions(rows) == Slice1(rows[FindIndex(rows, FourYearHeader) + 1])

\* fteIndexMap = fteOptions.reduce((acc, val, index) => { acc[val] = index; ... }, {})
LoadedFteIndexMap(rows) ==
    LET options == LoadedFteOptions(rows)
    IN AssignAll(<<>>, options, [i \in 1..Len(options) |-> i - 1])

LoadedTwoYearGieOptions(rows) ==
    LET twoYearRows == parseSection(rows, TwoYearHeader)
    IN [i \in 1..Len(twoYearRows) |->
          [value |-> twoYearRows[i][1], fee |-> NumberAt(twoYearRows[i], 1)]]

\* sectionRows.forEach(row => table.set(row[0], Number(row[1]))), also table[row[0]] = ...
LoadedFlatTable(rows, header, old) ==
    LET sectionRows == parseSection(rows, header)
    IN AssignAll(old,
                 [i \in 1..Len(sectionRows) |-> sectionRows[i][1]],
                 [i \in 1..Len(sectionRows) |-> NumberAt(sectionRows[i], 1)])

LoadedBusinessPartnerLevels(rows) ==
    LET businessPartnerRows == parseSection(rows, BusinessPartnerHeader)
    IN [i \in 1..Len(businessPartnerRows) |->
          [value |-> businessPartnerRows[i][1],
           label |-> Capitalize(businessPartnerRows[i][1])]]

LoadedRegions(rows) ==
    LET regionalMultiplierRows == parseSection(rows, RegionalHeader)
    IN [i \in 1..Len(regionalMultiplierRows) |->
          [value |-> regionalMultiplierRows[i][1], label |-> regionalMultiplierRows[i][1]]]

\* ------------------------------------------------------------------------
\* Actions
\* ------------------------------------------------------------------------

\* A direct call: the function, its arguments (key, key2, base as the
\* function takes them), the state of the load when it ran, what it returned
NoCall == [fn |-> "none", key |-> <<>>, key2 |-> <<>>, base |-> Zero, at |-> "pending",
           result |-> Zero]
NoResult == [nationalFee |-> <<>>, regionalFee |-> <<>>, totalFee |-> <<>>]

EmptyTable == <<>>

\* The state once the script has run.  The page's markup is not among the
\* sources: the dependent selects start without options (the script fills
\* them) and the result section without amounts; the institution type
\* selected at first is any of the offered ones.
Init ==
    /\ csv \in Params
    /\ loadState = "pending"
    /\ domReady = FALSE
    /\ feeMatrix = EmptyTable
    /\ gieOptions = <<>>
    /\ nonHigherEdFees = EmptyTable
    /\ businessPartnerFees = EmptyTable
    /\ regionMultipliers = EmptyTable
    /\ fteOptions = <<>>
    /\ fteIndexMap = EmptyTable
    /\ twoYearGieOptions = <<>>
    /\ businessPartnerLevels = <<>>
    /\ regions = <<>>
    /\ institutionType \in InstitutionTypes
    /\ dropdown = [id \in DropdownIds |-> Cleared(FALSE)]
    /\ result = NoResult
    /\ lastEvent = "none"
    /\ alert = NoAlert
    /\ call = NoCall

\* fetch(...) rejects, or response.text() does: neither .then callback runs
\* and the chain has no .catch
FetchFails ==
    /\ loadState = "pending"
    /\ loadState' = "fetchFailed"
    /\ UNCHANGED <<csv, domReady, tables, form, call>>

\* The second .then callback, run once with the text of the file
FetchCallback ==
    /\ loadState = "pending"
    /\ LET rows == ParseRows(TextOf(csv))
       IN /\ gieOptions' = LoadedGieOptions(rows)
          /\ feeMatrix' = LoadedFeeMatrix(rows, feeMatrix)
          /\ IF FteRowExists(rows)
             THEN /\ fteOptions' = LoadedFteOptions(rows)
                  /\ fteIndexMap' = LoadedFteIndexMap(rows)
                  /\ twoYearGieOptions' = LoadedTwoYearGieOptions(rows)
                  /\ nonHigherEdFees' = LoadedFlatTable(rows, NonHigherEdHeader, nonHigherEdFees)
                  /\ businessPartnerLevels' = LoadedBusinessPartnerLevels(rows)
                  /\ businessPartnerFees' =
                         LoadedFlatTable(rows, BusinessPartnerHeader, businessPartnerFees)
                  /\ regions' = LoadedRegions(rows)
                  /\ regionMultipliers' =
                         LoadedFlatTable(rows, RegionalHeader, regionMultipliers)
                  /\ dropdown' = DropdownsAfterChange(institutionType, fteOptions', gieOptions',
                                     twoYearGieOptions', businessPartnerLevels', regions')
                  /\ lastEvent' = "load"
                  /\ alert' = NoAlert
                  /\ loadState' = "loaded"
             ELSE \* the TypeError of line 268 rejects the chain
                  /\ loadState' = "threw"
                  /\ UNCHANGED <<fteOptions, fteIndexMap, twoYearGieOptions, nonHigherEdFees,
                                 businessPartnerLevels, businessPartnerFees, regions,
                                 regionMultipliers, dropdown, lastEvent, alert>>
    /\ UNCHANGED <<csv, domReady, institutionType, result, call>>

\* Variant of handleInstitutionTypeChange that also empties the regions array
handleInstitutionTypeChangeResettingRegions ==
    /\ dropdown' = DropdownsAfterChange(institutionType', fteOptions, gieOptions,
                       twoYearGieOptions, businessPartnerLevels, regions)
    /\ alert' = NoAlert
    /\ regions' = <<>>
    /\ UNCHANGED <<csv, loadState, feeMatrix, gieOptions, nonHigherEdFees,
                   businessPartnerFees, regionMultipliers, fteOptions, fteIndexMap,
                   twoYearGieOptions, businessPartnerLevels, result, call>>

handleInstitutionTypeChange ==
    /\ dropdown' = DropdownsAfterChange(institutionType', fteOptions, gieOptions,
                       twoYearGieOptions, businessPartnerLevels, regions)
    /\ alert' = NoAlert
    /\ UNCHANGED <<csv, loadState, tables, result, call>>

\* document.addEventListener('DOMContentLoaded', handleInstitutionTypeChange)
DOMContentLoaded ==
    /\ ~domReady
    /\ domReady' = TRUE
    /\ institutionType' = institutionType
    /\ lastEvent' = "ready"
    /\ handleInstitutionTypeChange

\* The user picks another institution type: the change event of the select
ChangeInstitutionType(type) ==
    /\ type # institutionType
    /\ institutionType' = type
    /\ lastEvent' = "change"
    /\ UNCHANGED domReady
    /\ handleInstitutionTypeChange

\* The user picks option i of an enabled dependent select (no handler runs)
SelectOption(id, i) ==
    /\ ~dropdown[id].disabled
    /\ i \in 1..Len(dropdown[id].options)
    /\ dropdown[id].options[i] # dropdown[id].value
    /\ dropdown' = [dropdown EXCEPT ![id].value = dropdown[id].options[i]]
    /\ lastEvent' = "select"
    /\ alert' = NoAlert
    /\ UNCHANGED <<csv, loadState, domReady, tables, institutionType, result, call>>

Selected(id) == dropdown[id].value

\* Variant of SelectionAlert without the presence checks
SelectionAlertNever(type) == NoAlert

\* The alert of the category's own presence check, or NoAlert
SelectionAlert(type) ==
    CASE type = FourYear ->
           IF Selected("fie") = <<>> \/ Selected("gie") = <<>>
           THEN "Please select both FTE and GIE for four-year institutions."
           ELSE NoAlert
      [] type = TwoYear ->
           IF Selected("gieTwoYear") = <<>>
           THEN "Please select GIE for two-year institutions."
           ELSE NoAlert
      [] type = BusinessPartner ->
           IF Selected("businessLevel") = <<>>
           THEN "Please select a business level."
           ELSE NoAlert
      [] OTHER -> NoAlert

\* nationalFee by institution type
NationalFee(type) ==
    CASE type = FourYear -> getFourYearFee(Selected("fie"), Selected("gie"))
      [] type = TwoYear -> getTwoYearFee(Selected("gieTwoYear"))
      [] type = BusinessPartner -> getBusinessPartnerFee(Selected("businessLevel"))
      [] OTHER -> getNonHigherEdFee(type)

\* institutionType !== 'business-partner'
RegionalApplies(type) == type # BusinessPartner

\* Variant of RegionAlert without the region check
RegionAlertNever(type) == NoAlert

\* The alert of the region check, or NoAlert
RegionAlert(type) ==
    IF RegionalApplies(type) /\ Selected("region") = <<>>
    THEN "Please select a region."
    ELSE NoAlert

RegionalFee(type, nationalFee) ==
    IF RegionalApplies(type) THEN getRegionalFee(Selected("region"), nationalFee) ELSE Zero

\* Variant of TotalFee that leaves the regional fee out
TotalFeeNationalOnly(nationalFee, regionalFee) == nationalFee

\* const totalFee = nationalFee + regionalFee
TotalFee(nationalFee, regionalFee) == Add(nationalFee, regionalFee)

calculateFee ==
    LET type == institutionType
        nationalFee == NationalFee(type)
        regionalFee == RegionalFee(type, nationalFee)
        totalFee == TotalFee(nationalFee, regionalFee)
    IN /\ lastEvent' = "calculate"
       /\ IF SelectionAlert(type) # NoAlert
          THEN alert' = SelectionAlert(type) /\ UNCHANGED result
          ELSE IF RegionAlert(type) # NoAlert
          THEN alert' = RegionAlert(type) /\ UNCHANGED result
          ELSE /\ alert' = NoAlert
               /\ result' = [nationalFee |-> ToFixed2(nationalFee),
                             regionalFee |-> ToFixed2(regionalFee),
                             totalFee |-> ToFixed2(totalFee)]
       /\ UNCHANGED <<csv, loadState, domReady, tables, institutionType, dropdown, call>>

Next ==
    \/ FetchFails
    \/ FetchCallback
    \/ DOMContentLoaded
    \/ \E type \in InstitutionTypes : ChangeInstitutionType(type)
    \/ \E id \in DropdownIds, i \in 1..(2 * NumFte + NumGie + NumFlat + 1) : SelectOption(id, i)
    \/ calculateFee

Spec == Init /\ [][Next]_vars

\* ------------------------------------------------------------------------
\* Direct calls of the lookup functions (they are globals of the page)
\* ------------------------------------------------------------------------

TitleCell == <<"2", "0", "2", "4">>
ProbeFte == {FteLabel(j, style) : j \in 1..NumFte, style \in {"plain", "comma"}}
            \cup {TitleCell, Other} \cup ObjectProtoKeys
ProbeGie == {GieLabel(i) : i \in 1..NumGie} \cup {<<"G", "I", "E">>, Other}
ProbeTwoYear == {TwoYearLabel(i) : i \in 1..NumFlat} \cup {Other}
ProbeLevels == {LevelLabel(i) : i \in 1..NumFlat} \cup {Other}
ProbeRegions == {RegionLabel(i) : i \in 1..NumFlat} \cup {Other} \cup ObjectProtoKeys
ProbeBases == {Num(50 * k) : k \in 0..MaxBase} \cup {NaN}

Called(fn, key, key2, base, value) ==
    /\ call' = [fn |-> fn, key |-> key, key2 |-> key2, base |-> base, at |-> loadState,
                result |-> value]
    /\ UNCHANGED <<csv, loadState, domReady, tables, form>>

CallGetFourYearFee(fie, gie) ==
    Called("getFourYearFee", fie, gie, Zero, getFourYearFee(fie, gie))

CallGetTwoYearFee(gie) ==
    Called("getTwoYearFee", gie, <<>>, Zero, getTwoYearFee(gie))

CallGetNonHigherEdFee(type) ==
    Called("getNonHigherEdFee", type, <<>>, Zero, getNonHigherEdFee(type))

CallGetBusinessPartnerFee(level) ==
    Called("getBusinessPartnerFee", level, <<>>, Zero, getBusinessPartnerFee(level))

CallGetRegionalFee(region, baseFee) ==
    Called("getRegionalFee", region, <<>>, baseFee, getRegionalFee(region, baseFee))

NextLookup ==
    \/ FetchCallback
    \/ \E fie \in ProbeFte, gie \in ProbeGie : CallGetFourYearFee(fie, gie)
    \/ \E gie \in ProbeTwoYear : CallGetTwoYearFee(gie)
    \/ \E type \in InstitutionTypes : CallGetNonHigherEdFee(type)
    \/ \E level \in ProbeLevels : CallGetBusinessPartnerFee(level)
    \/ \E region \in ProbeRegions, baseFee \in ProbeBases : CallGetRegionalFee(region, baseFee)

\* The form plays no part in the direct calls: one initial institution type
InitLookup == Init /\ institutionType = FourYear

SpecLookup == InitLookup /\ [][NextLookup]_vars

\* ------------------------------------------------------------------------
\* The source file as tabulated (vocabulary of the claims)
\* ------------------------------------------------------------------------

Src == SourceOf(csv)

SrcHasHeader(header) == LET src == Src IN \E i \in 1..Len(src) : src[i] = <<header>>

\* The records that follow the header record up to the next blank line
SrcSection(header) ==
    LET src == Src
        heads == {k \in 1..Len(src) : src[k] = <<header>>}
        i == CHOOSE k \in heads : \A m \in heads : k <= m
        blanks == {k \in (i + 1)..Len(src) : src[k] = <<>>}
        stop == IF blanks = {} THEN Len(src) + 1
                ELSE CHOOSE k \in blanks : \A m \in blanks : k <= m
    IN IF heads = {} THEN <<>> ELSE SubSeq(src, i + 1, stop - 1)

\* The four-year section: its column-header record, then its data records
SrcFteLabels == LET section == SrcSection(FourYearHeader)
                IN IF section = <<>> THEN <<>> ELSE Tail(section[1])
SrcFourYearData == LET section == SrcSection(FourYearHeader)
                   IN IF section = <<>> THEN <<>> ELSE Tail(section)

Loaded == loadState = "loaded"

\* ------------------------------------------------------------------------
\* C1
\* ------------------------------------------------------------------------

\* C1: for every GIE row label and FTE column label of the four-year section
\* of the source file (labels with commas included), after the load
\* getFourYearFee(fte, gie) returns the numeric cell at that row and column.
C1_FourYearFeeIsSourceCell ==
    (call.fn = "getFourYearFee" /\ call.at = "loaded") =>
        LET labels == SrcFteLabels
            data == SrcFourYearData
        IN \A r \in 1..Len(data), j \in 1..Len(labels) :
               ( /\ call.key = labels[j]
                 /\ call.key2 = data[r][1]
                 /\ ~NumberOf(data[r][j + 1]).nan )
               => call.result = NumberOf(data[r][j + 1])

\* ------------------------------------------------------------------------
\* C2
\* ------------------------------------------------------------------------

\* x is the least whole number that is at least a * b (a, b numbers)
IsCeilOfProduct(x, a, b) ==
    /\ ~x.nan
    /\ x.v % 100 = 0
    /\ x.v * 100 >= a.v * b.v
    /\ (x.v - 100) * 100 < a.v * b.v

\* Math.ceil(b * m) as a value: NaN when b or m is NaN
EqualsCeilOfProduct(x, a, b) ==
    IF a.nan \/ b.nan THEN x.nan ELSE IsCeilOfProduct(x, a, b)

RegionalCallOnLoadedRegion ==
    /\ call.fn = "getRegionalFee"
    /\ call.at = "loaded"
    /\ call.key \in DOMAIN regionMultipliers

C5_UnknownKeysGiveZero ==
    /\ (call.fn = "getNonHigherEdFee" /\ call.key \notin DOMAIN nonHigherEdFees)
           => call.result = Zero
    /\ (call.fn = "getBusinessPartnerFee" /\ call.key \notin DOMAIN businessPartnerFees)
           => call.result = Zero
    /\ (call.fn = "getRegionalFee" /\ call.key \notin DOMAIN regionMultipliers
            /\ ~call.base.nan)
           => call.result = Zero

\* ------------------------------------------------------------------------
\* C8
\* ------------------------------------------------------------------------

\* The table cell the recorded call read is NaN
CallReadNaNCell ==
    /\ call.at = "loaded"
    /\ CASE call.fn = "getFourYearFee" ->
              /\ call.key2 \in DOMAIN feeMatrix
              /\ call.key \in DOMAIN fteIndexMap
              /\ fteIndexMap[call.key] + 1 <= Len(feeMatrix[call.key2])
              /\ feeMatrix[call.key2][fteIndexMap[call.key] + 1].nan
         [] call.fn = "getTwoYearFee" ->
              \E i \in 1..Len(twoYearGieOptions) :
                  /\ twoYearGieOptions[i].value = call.key
                  /\ twoYearGieOptions[i].fee.nan
                  /\ \A k \in 1..(i - 1) : twoYearGieOptions[k].value # call.key
         [] call.fn = "getNonHigherEdFee" ->
              call.key \in DOMAIN nonHigherEdFees /\ nonHigherEdFees[call.key].nan
         [] call.fn = "getBusinessPartnerFee" ->
              call.key \in DOMAIN businessPartnerFees /\ businessPartnerFees[call.key].nan
         [] call.fn = "getRegionalFee" ->
              call.key \in DOMAIN regionMultipliers /\ regionMultipliers[call.key].nan
         [] OTHER -> FALSE

\* Every malformed cell of the file's data records is NaN in its table
MalformedCellsAreNaN ==
    Loaded =>
        LET four == SrcFourYearData
            two == SrcSection(TwoYearHeader)
            nhe == SrcSection(NonHigherEdHeader)
            bp == SrcSection(BusinessPartnerHeader)
            reg == SrcSection(RegionalHeader)
        IN /\ \A r \in 1..Len(four) : \A j \in 1..(Len(four[r]) - 1) :
                  four[r][j + 1] = Malformed => feeMatrix[four[r][1]][j].nan
           /\ \A r \in 1..Len(two) : two[r][2] = Malformed => twoYearGieOptions[r].fee.nan
           /\ \A r \in 1..Len(nhe) : nhe[r][2] = Malformed => nonHigherEdFees[nhe[r][1]].nan
           /\ \A r \in 1..Len(bp) : bp[r][2] = Malformed => businessPartnerFees[bp[r][1]].nan
           /\ \A r \in 1..Len(reg) : reg[r][2] = Malformed => regionMultipliers[reg[r][1]].nan

LoadRan == loadState \in {"loaded", "threw"}

\* C6: if a section header is absent from the source file, the load does
\* not fail and every structure derived from that section is empty; without
\* the "Four-Year Institution Fees" header the fee matrix, the GIE options,
\* the FTE options and the FTE index map are all empty.
C6_AbsentSectionGivesEmptyStructures ==
    LoadRan =>
        /\ ~SrcHasHeader(FourYearHeader) =>
               /\ Loaded
               /\ feeMatrix = EmptyTable /\ gieOptions = <<>>
               /\ fteOptions = <<>> /\ fteIndexMap = EmptyTable
        /\ ~SrcHasHeader(TwoYearHeader) => (Loaded /\ twoYearGieOptions = <<>>)
        /\ ~SrcHasHeader(NonHigherEdHeader) => (Loaded /\ nonHigherEdFees = EmptyTable)
        /\ ~SrcHasHeader(BusinessPartnerHeader) =>
               (Loaded /\ businessPartnerFees = EmptyTable /\ businessPartnerLevels = <<>>)
        /\ ~SrcHasHeader(RegionalHeader) =>
               (Loaded /\ regionMultipliers = EmptyTable /\ regions = <<>>)

\* ------------------------------------------------------------------------
\* C10
\* ------------------------------------------------------------------------

\* C10: after the load every GIE option and every key of the fee matrix is
\* the label of a data row of the four-year section, stored with that row's
\* numeric fees; the FTE column-header row is neither a GIE option nor a
\* fee-matrix row.
C10_GieOptionsAreDataRows ==
    Loaded =>
        LET data == SrcFourYearData
        IN /\ gieOptions = [r \in 1..Len(data) |-> data[r][1]]
           /\ DOMAIN feeMatrix = {data[r][1] : r \in 1..Len(data)}
           /\ \A r \in 1..Len(data) :
                  feeMatrix[data[r][1]] =
                      [j \in 1..(Len(data[r]) - 1) |-> NumberOf(data[r][j + 1])]

\* ------------------------------------------------------------------------
\* C3
\* ------------------------------------------------------------------------

\* calculateFee ran last and wrote the result section
CalculateCompleted == lastEvent = "calculate" /\ alert = NoAlert

\* C3: whenever calculateFee completes, the displayed national fee is the
\* lookup for the chosen category (four-year, two-year, business-partner,
\* otherwise non-higher-ed), the displayed regional fee is
\* getRegionalFee(region, national) except for business-partner, where it is
\* 0, and the displayed total is national + regional.
C3_DisplayedFees ==
    CalculateCompleted =>
        LET national ==
                IF institutionType = FourYear
                THEN getFourYearFee(Selected("fie"), Selected("gie"))
                ELSE IF institutionType = TwoYear
                THEN getTwoYearFee(Selected("gieTwoYear"))
                ELSE IF institutionType = BusinessPartner
                THEN getBusinessPartnerFee(Selected("businessLevel"))
                ELSE getNonHigherEdFee(institutionType)
            regional ==
                IF institutionType = BusinessPartner THEN Zero
                ELSE getRegionalFee(Selected("region"), national)
        IN /\ NumberOf(result.nationalFee) = national
           /\ NumberOf(result.regionalFee) = regional
           /\ NumberOf(result.totalFee) =
                  Add(NumberOf(result.nationalFee), NumberOf(result.regionalFee))

\* A four-year calculation on a loaded file displayed 150.00 + 188.00 = 338.00
C3_Witness ==
    /\ CalculateCompleted
    /\ Loaded
    /\ institutionType = FourYear
    /\ result = [nationalFee |-> <<"1", "5", "0", ".", "0", "0">>,
                 regionalFee |-> <<"1", "8", "8", ".", "0", "0">>,
                 totalFee |-> <<"3", "3", "8", ".", "0", "0">>]

\* ------------------------------------------------------------------------
\* C4
\* ------------------------------------------------------------------------

\* A selection the chosen category requires is empty
SelectionMissing ==
    \/ institutionType = FourYear /\ (Selected("fie") = <<>> \/ Selected("gie") = <<>>)
    \/ institutionType = TwoYear /\ Selected("gieTwoYear") = <<>>
    \/ institutionType = BusinessPartner /\ Selected("businessLevel") = <<>>
    \/ institutionType # BusinessPartner /\ Selected("region") = <<>>

\* A step of calculateFee: the only action that makes "calculate" the last
\* event and leaves the load, the form selections and the calls alone
CalculateStep ==
    /\ lastEvent' = "calculate"
    /\ UNCHANGED <<loadState, domReady, institutionType, dropdown, call>>

\* C4: whenever a selection required by the chosen category is empty,
\* calculateFee reports a validation message and leaves the displayed
\* national, regional and total fee exactly as they were.
C4_MissingSelectionLeavesResult ==
    [][(CalculateStep /\ SelectionMissing) => (alert' # NoAlert /\ result' = result)]_vars

\* A validation message was shown while an earlier result stayed displayed
C4_Witness ==
    /\ lastEvent = "calculate"
    /\ alert = "Please select a region."
    /\ SelectionMissing
    /\ result # NoResult

\* ------------------------------------------------------------------------
\* C7
\* ------------------------------------------------------------------------

\* C7: the tables are written only by the single startup load; once the
\* load has completed no handleInstitutionTypeChange or calculateFee call
\* changes any table.
C7_TablesWrittenOnlyByLoad ==
    [][tables' # tables => (loadState = "pending" /\ loadState' # "pending")]_vars

\* Both handlers ran after a load that filled the tables
C7_Witness ==
    /\ Loaded
    /\ domReady
    /\ lastEvent = "calculate"
    /\ feeMatrix # EmptyTable
    /\ regionMultipliers # EmptyTable

\* ------------------------------------------------------------------------
\* C9
\* ------------------------------------------------------------------------

====
